---- MODULE Spec2Model ----
(***************************************************************************)
(* Document assembly and cross-reference numbering of md-manuscript        *)
(* (resources/build.py): inclusion resolution, citation extraction, the    *)
(* single-document merge of build_document and the pre-scan / per-file     *)
(* build / index rewrite of build_digital_garden.                          *)
(*                                                                         *)
(* A text is a sequence of tokens (strings): one token stands for one      *)
(* lexical unit the regular expressions of the source tell apart.  A path  *)
(* is a sequence of tokens too (name parts, then an optional suffix        *)
(* token), all paths being relative to the directory of the source file.   *)
(***************************************************************************)
EXTENDS Integers, Sequences, FiniteSets, TLC

VARIABLES
    disk,               \* the files that exist: path -> content
    unreadable,         \* the existing paths whose open()/read() raises
    args,               \* the arguments of the entry point that runs
    pc,                 \* the position of the run
    garden_dir,         \* export/garden: file name -> content
    master_content,     \* build_digital_garden: text of the index file
    files_to_build,     \* build_digital_garden: the MemberFileList
    cumulative_figures, \* build_digital_garden: running figure counter
    cumulative_tables,  \* build_digital_garden: running table counter
    file_offsets,       \* build_digital_garden: one offsets record per member
    global_label_map,   \* build_digital_garden: label -> [num, file]
    scanned,            \* number of members the pre-scan loop has handled
    i,                  \* the per-file build loop's index (1-based here)
    numbered,           \* history: every number the line walk gave to a marker line
    handed,             \* history: every invocation of the conversion collaborator
    warnings,           \* history: the messages printed so far
    temp_merged,        \* build_document: content of the merged temporary file
    cause,              \* why the run ended abnormally ("" while it has not)
    result              \* the value returned by the function under test

vars == <<disk, unreadable, args, pc, garden_dir, master_content, files_to_build,
          cumulative_figures, cumulative_tables, file_offsets, global_label_map,
          scanned, i, numbered, handed, warnings, temp_merged, cause, result>>

----------------------------------------------------------------------------
(* Bounds of the model.                                                    *)

\* total number of text lines in the member files of a collection
MaxLines == 2

\* depth at which a nested resolve_transclusions call exhausts the stack
MaxDepth == 3

----------------------------------------------------------------------------
(* Tokens.                                                                 *)

NL == "\n"
SPACE == " "
DELIM == "---"
FIGURE == "[!figure]"
TABLE == "[!table]"
BANG == "!"
OPEN == "[["
CLOSE == "]]"
BAR == "|"
MD == ".md"

Whitespace == {SPACE, NL}
Suffixes == {MD, ".txt"}

\* tokens matched by  #(fig:[a-zA-Z0-9_\-]+)  and  #(tbl:[a-zA-Z0-9_\-]+)
FigLabelTokens == {"#fig:a", "#fig:b", "#fig:c", "#fig:h"}
TblLabelTokens == {"#tbl:a", "#tbl:b", "#tbl:c"}

\* match.group(1): the label token without its leading '#'
LabelKey ==
    [t \in FigLabelTokens \cup TblLabelTokens |->
        CASE t = "#fig:a" -> "fig:a"
          [] t = "#fig:b" -> "fig:b"
          [] t = "#fig:c" -> "fig:c"
          [] t = "#fig:h" -> "fig:h"
          [] t = "#tbl:a" -> "tbl:a"
          [] t = "#tbl:b" -> "tbl:b"
          [] t = "#tbl:c" -> "tbl:c"]

----------------------------------------------------------------------------
(* Sequences and strings.                                                  *)

RECURSIVE Flatten(_)
Flatten(ss) == IF ss = <<>> THEN <<>> ELSE Head(ss) \o Flatten(Tail(ss))

Contains(text, tok) == \E p \in 1..Len(text) : text[p] = tok

\* least position >= from of a token of set S in text, 0 when there is none
RECURSIVE FirstIn(_, _, _)
FirstIn(text, S, from) ==
    IF from > Len(text) THEN 0
    ELSE IF text[from] \in S THEN from
    ELSE FirstIn(text, S, from + 1)

\* str.splitlines()
RECURSIVE SplitLines(_)
SplitLines(text) ==
    IF text = <<>> THEN <<>>
    ELSE LET p == FirstIn(text, {NL}, 1) IN
         IF p = 0 THEN <<text>>
         ELSE <<SubSeq(text, 1, p - 1)>> \o SplitLines(SubSeq(text, p + 1, Len(text)))

\* a count of the lines that hold the token, not of its occurrences
CountLinesWith(text, tok) ==
    Cardinality({l \in 1..Len(SplitLines(text)) : Contains(SplitLines(text)[l], tok)})

\* len(re.findall(token, content)): the occurrences of a token
CountOcc(text, tok) == Cardinality({p \in 1..Len(text) : text[p] = tok})

\* str.strip()
RECURSIVE LStrip(_)
LStrip(s) == IF s # <<>> /\ Head(s) \in Whitespace THEN LStrip(Tail(s)) ELSE s

RECURSIVE RStrip(_)
RStrip(s) ==
    IF s # <<>> /\ s[Len(s)] \in Whitespace THEN RStrip(SubSeq(s, 1, Len(s) - 1)) ELSE s

Strip(s) == LStrip(RStrip(s))

\* s.split(sep)[0], which is also s.split(sep, 1)[0]
BeforeFirst(s, sep) ==
    LET p == FirstIn(s, {sep}, 1) IN IF p = 0 THEN s ELSE SubSeq(s, 1, p - 1)

\* s.split(sep)[1] when the split has more than one part: the second part
SecondPart(s, sep) ==
    LET p == FirstIn(s, {sep}, 1)
        rest == SubSeq(s, p + 1, Len(s))
    IN BeforeFirst(rest, sep)

----------------------------------------------------------------------------
(* Paths (pathlib).                                                        *)

\* Path.suffix is not empty
HasSuffix(path) == path # <<>> /\ path[Len(path)] \in Suffixes

\* Path.with_suffix(".md") of a path without suffix
WithSuffixMd(path) == IF HasSuffix(path) THEN SubSeq(path, 1, Len(path) - 1) \o <<MD>>
                      ELSE path \o <<MD>>

\* Path.stem
Stem(path) == IF HasSuffix(path) THEN SubSeq(path, 1, Len(path) - 1) ELSE path

\* Path.exists()
Exists(path) == path \in DOMAIN disk

----------------------------------------------------------------------------
(* resolve_transclusions.                                                  *)

\* the pattern  !\[\[(.*?)\]\]  matches at position p: q is the position of the
\* first "]]" after the "![[" with no line break before it ('.' matches none)
\* a pattern whose group runs over line ends
RECURSIVE CloseAtAcrossLines(_, _)
CloseAtAcrossLines(text, q) ==
    IF q > Len(text) THEN 0
    ELSE IF text[q] = CLOSE THEN q
    ELSE CloseAtAcrossLines(text, q + 1)

RECURSIVE CloseAt(_, _)
CloseAt(text, q) ==
    IF q > Len(text) \/ text[q] = NL THEN 0
    ELSE IF text[q] = CLOSE THEN q
    ELSE CloseAt(text, q + 1)

DirectiveAt(text, p) ==
    /\ p + 1 <= Len(text)
    /\ text[p] = BANG
    /\ text[p + 1] = OPEN
    /\ CloseAt(text, p + 2) # 0

\* re.findall(r"!\[\[(.*?)\]\]", text): the group of every match, left to right
RECURSIVE FindTransclusions(_, _)
FindTransclusions(text, p) ==
    IF p > Len(text) THEN <<>>
    ELSE IF DirectiveAt(text, p)
         THEN LET q == CloseAt(text, p + 2) IN
              <<SubSeq(text, p + 2, q - 1)>> \o FindTransclusions(text, q + 1)
         ELSE FindTransclusions(text, p + 1)

\* the file name _replace_transclusion takes from match.group(1)
TransclusionFilename(group) ==
    LET filename == Strip(group) IN
    IF Contains(filename, BAR) THEN BeforeFirst(filename, BAR) ELSE filename

\* the path _replace_transclusion looks up
TransclusionPath(group) ==
    LET file_path == TransclusionFilename(group) IN
    IF ~Exists(file_path) /\ ~HasSuffix(file_path) THEN WithSuffixMd(file_path)
    ELSE file_path

\* "Strip YAML frontmatter from transcluded file": content.split("---", 2) gives
\* three parts when the delimiter occurs twice; fewer parts raise ValueError,
\* which is passed over and leaves the content as it is
\* an inclusion that keeps the metadata block of the included file
KeepFrontmatter(content) == content

StripFrontmatter(content) ==
    IF content # <<>> /\ Head(content) = DELIM
    THEN LET second == FirstIn(content, {DELIM}, 2) IN
         IF second = 0 THEN content
         ELSE SubSeq(content, second + 1, Len(content))
    ELSE content

Warning(msg, what) == [msg |-> msg, what |-> what]

\* resolve_transclusions(content, base_dir) called at nesting depth `depth`.
\* The value is [text, warnings, raised]: raised stands for the RecursionError
\* of a call that finds no stack left; _replace_transclusion catches it, like
\* every Exception of its try block, prints a warning and keeps the directive.
RECURSIVE resolve_at(_, _)
RECURSIVE replace_transclusion(_, _, _)
RECURSIVE sub_transclusions(_, _, _)

\* a resolver that passes over the failure of the nested call without a word
SubstitutedSilently(whole, filename, inner) ==
    IF inner.raised
    THEN [text |-> <<>>, warnings |-> inner.warnings]
    ELSE [text |-> inner.text, warnings |-> inner.warnings]

\* the value of _replace_transclusion once the nested call has returned
\* `inner` or has raised
Substituted(whole, filename, inner) ==
    IF inner.raised
    THEN [text |-> whole,
          warnings |-> inner.warnings
              \o <<Warning("Error reading transcluded file", filename)>>]
    ELSE [text |-> inner.text, warnings |-> inner.warnings]

\* a resolver that drops the directive of a missing target
NotFoundDropped(whole, filename) ==
    [text |-> <<>>, warnings |-> <<Warning("Transcluded file not found", filename)>>]

\* lines 1155-1157: the target does not exist
NotFound(whole, filename) ==
    [text |-> whole, warnings |-> <<Warning("Transcluded file not found", filename)>>]

replace_transclusion(whole, group, depth) ==
    IF ~Exists(TransclusionPath(group))
    THEN NotFound(whole, TransclusionFilename(group))
    ELSE IF TransclusionPath(group) \in unreadable
    THEN [text |-> whole,
          warnings |-> <<Warning("Error reading transcluded file",
                                 TransclusionFilename(group))>>]
    ELSE Substituted(whole, TransclusionFilename(group),
                     resolve_at(StripFrontmatter(disk[TransclusionPath(group)]),
                                depth + 1))

\* re.sub(pattern, _replace_transclusion, content) from position p on
Joined(r, rest) ==
    [text |-> r.text \o rest.text, warnings |-> r.warnings \o rest.warnings]

Plain(token) == [text |-> <<token>>, warnings |-> <<>>]

Returned(r) == [text |-> r.text, warnings |-> r.warnings, raised |-> FALSE]

\* the directive that starts at position p, from "![[" to "]]", and its group
MatchEnd(content, p) == CloseAt(content, p + 2)
MatchText(content, p) == SubSeq(content, p, MatchEnd(content, p))
MatchGroup(content, p) == SubSeq(content, p + 2, MatchEnd(content, p) - 1)

sub_transclusions(content, p, depth) ==
    IF p > Len(content) THEN [text |-> <<>>, warnings |-> <<>>]
    ELSE IF DirectiveAt(content, p)
         THEN Joined(replace_transclusion(MatchText(content, p),
                                          MatchGroup(content, p), depth),
                     sub_transclusions(content, MatchEnd(content, p) + 1, depth))
         ELSE Joined(Plain(content[p]), sub_transclusions(content, p + 1, depth))

resolve_at(content, depth) ==
    IF depth > MaxDepth
    THEN [text |-> <<>>, warnings |-> <<>>, raised |-> TRUE]
    ELSE Returned(sub_transclusions(content, 1, depth))

resolve_transclusions(content) == resolve_at(content, 1)

----------------------------------------------------------------------------
(* extract_si_citations.  The text of an SI file is read character by      *)
(* character: its tokens are single characters.                            *)

Letters == {"a", "b", "d", "e", "g", "h", "i", "l", "m", "o", "r", "s", "t", "u",
            "F", "T"}
Digits == {"0", "1", "2"}
KeyChars == Letters \cup Digits \cup {"_", ":", "-"}

\* ord() of the characters of the model
Ord ==
    [c \in KeyChars \cup {"@"} |->
        CASE c = "-" -> 45 [] c = "0" -> 48 [] c = "1" -> 49 [] c = "2" -> 50
          [] c = ":" -> 58 [] c = "@" -> 64 [] c = "F" -> 70 [] c = "T" -> 84
          [] c = "_" -> 95 [] c = "a" -> 97 [] c = "b" -> 98 [] c = "d" -> 100
          [] c = "e" -> 101 [] c = "g" -> 103 [] c = "h" -> 104 [] c = "i" -> 105
          [] c = "l" -> 108 [] c = "m" -> 109 [] c = "o" -> 111 [] c = "r" -> 114
          [] c = "s" -> 115
          [] c = "t" -> 116 [] c = "u" -> 117]

\* str < str of Python: the first differing character decides, a proper prefix is less
RECURSIVE StrLess(_, _)
StrLess(a, b) ==
    IF b = <<>> THEN FALSE
    ELSE IF a = <<>> THEN TRUE
    ELSE IF Head(a) = Head(b) THEN StrLess(Tail(a), Tail(b))
    ELSE Ord[Head(a)] < Ord[Head(b)]

\* end of the longest run of [a-zA-Z0-9_:-] that starts at position q
RECURSIVE KeyEnd(_, _)
KeyEnd(text, q) ==
    IF q <= Len(text) /\ text[q] \in KeyChars THEN KeyEnd(text, q + 1) ELSE q - 1

\* set(re.findall(r"@[a-zA-Z][a-zA-Z0-9_:-]*", content))
RECURSIVE FindCitations(_, _)
FindCitations(text, p) ==
    IF p > Len(text) THEN {}
    ELSE IF text[p] = "@" /\ p + 1 <= Len(text) /\ text[p + 1] \in Letters
         THEN LET e == KeyEnd(text, p + 2) IN
              {SubSeq(text, p, e)} \cup FindCitations(text, e + 1)
         ELSE FindCitations(text, p + 1)

\* excluded = {"@Fig:", "@Tbl:", "@email"}
excluded == {<<"@", "F", "i", "g", ":">>, <<"@", "T", "b", "l", ":">>,
             <<"@", "e", "m", "a", "i", "l">>}

\* e.rstrip(":")
RECURSIVE RStripColon(_)
RStripColon(e) ==
    IF e # <<>> /\ e[Len(e)] = ":" THEN RStripColon(SubSeq(e, 1, Len(e) - 1)) ELSE e

\* c.startswith(prefix)
StartsWith(c, prefix) == Len(c) >= Len(prefix) /\ SubSeq(c, 1, Len(prefix)) = prefix

\* the list comprehension of line 1134, as a set
filtered(citations) ==
    {c \in citations : ~\E e \in excluded : StartsWith(c, RStripColon(e))}

\* the keys with the greatest first
RECURSIVE SortedDescending(_)
SortedDescending(keys) ==
    IF keys = {} THEN <<>>
    ELSE LET greatest == CHOOSE k \in keys : \A o \in keys \ {k} : StrLess(o, k) IN
         <<greatest>> \o SortedDescending(keys \ {greatest})

\* sorted(keys): the least key first
RECURSIVE SortedKeys(_)
SortedKeys(keys) ==
    IF keys = {} THEN <<>>
    ELSE LET least == CHOOSE k \in keys : \A o \in keys \ {k} : StrLess(k, o) IN
         <<least>> \o SortedKeys(keys \ {least})

\* "; ".join(list)
RECURSIVE JoinKeys(_)
JoinKeys(list) ==
    IF list = <<>> THEN <<>>
    ELSE IF Len(list) = 1 THEN list[1]
    ELSE list[1] \o <<";", " ">> \o JoinKeys(Tail(list))

\* extract_si_citations(si_file) when the file exists and can be read
CitationsOf(content) == JoinKeys(SortedKeys(filtered(FindCitations(content, 1))))

\* SUPPINFO = "02_supp_info.md"
SUPPINFO == <<"02_supp_info", MD>>

\* extract_si_citations(si_file): [raised, text]; None is the empty path
extract_si_citations(si_file) ==
    LET si_path == IF si_file # <<>> THEN si_file ELSE SUPPINFO IN
    IF ~Exists(si_path) THEN [raised |-> FALSE, text |-> <<>>]
    ELSE IF si_path \in unreadable THEN [raised |-> TRUE, text |-> <<>>]
    ELSE [raised |-> FALSE, text |-> CitationsOf(disk[si_path])]

----------------------------------------------------------------------------
(* build_document: the text it hands to the conversion collaborator.       *)

None == <<>>

\* nocite_header = f"---\nnocite: |\n  {si_cites}\n---\n\n"
nocite_header(si_cites) ==
    <<DELIM, NL, "nocite: |", NL, SPACE, SPACE>> \o si_cites \o <<NL, DELIM, NL, NL>>

\* Lines 1454-1491, "Resolve transclusions and merge frontmatter": the content
\* of temp_merged, or status "exit" when the try block raises (sys.exit(1)).
\* source is [readable, content]: the source file as open() finds it.
\* lines 1466-1487, given the value `resolved` of resolve_transclusions
write_merged(resolved, frontmatter_file) ==
    IF frontmatter_file # None /\ Exists(frontmatter_file)
    THEN IF frontmatter_file \in unreadable
         THEN [status |-> "exit", text |-> <<>>, warnings |-> resolved.warnings]
         ELSE [status |-> "ok",
               text |-> disk[frontmatter_file] \o <<NL>>
                           \o StripFrontmatter(resolved.text),
               warnings |-> resolved.warnings]
    ELSE [status |-> "ok", text |-> resolved.text, warnings |-> resolved.warnings]

merge_source(source, frontmatter_file) ==
    IF ~source.readable
    THEN [status |-> "exit", text |-> <<>>, warnings |-> <<>>]
    ELSE write_merged(resolve_transclusions(source.content), frontmatter_file)

\* Lines 1493-1506, "Include SI refs for main document": the content of
\* temp_merged afterwards; status "crash" when extract_si_citations raises.
\* lines 1500-1506, given the content `copied` of temp_merged and the value
\* of extract_si_citations
prepend_nocite(copied, si_cites) ==
    IF si_cites.raised THEN [status |-> "crash", text |-> copied]
    ELSE IF si_cites.text # <<>>
    THEN [status |-> "ok", text |-> nocite_header(si_cites.text) \o copied]
    ELSE [status |-> "ok", text |-> copied]

include_si(merged, source, frontmatter_file, include_si_refs, is_si, si_file) ==
    IF include_si_refs /\ ~is_si
    THEN prepend_nocite(IF frontmatter_file = None THEN source.content ELSE merged,
                        extract_si_citations(si_file))
    ELSE [status |-> "ok", text |-> merged]

WithWarnings(s, w) == [status |-> s.status, text |-> s.text, warnings |-> w]

\* the second half of build_document_input, m being the value of merge_source
after_merge(m, source, frontmatter_file, include_si_refs, is_si, si_file) ==
    IF m.status # "ok" THEN m
    ELSE WithWarnings(include_si(m.text, source, frontmatter_file,
                                 include_si_refs, is_si, si_file),
                      m.warnings)

\* build_document up to the pandoc command: [status, text, warnings]
build_document_input(source, frontmatter_file, include_si_refs, is_si, si_file) ==
    after_merge(merge_source(source, frontmatter_file), source, frontmatter_file,
                include_si_refs, is_si, si_file)

\* build_document of the script at the repository root, src/build.py.
\* Lines 1004-1014, "Merge frontmatter if requested": the front-matter file,
\* a newline and the source file as it is; nothing is resolved or stripped
\* and no exception is caught.  Without a merge the source file itself is the
\* input of pandoc.
merge_source_root(source, frontmatter_file) ==
    IF frontmatter_file # None /\ Exists(frontmatter_file)
    THEN IF frontmatter_file \in unreadable \/ ~source.readable
         THEN [status |-> "crash", text |-> <<>>, warnings |-> <<>>]
         ELSE [status |-> "ok",
               text |-> disk[frontmatter_file] \o <<NL>> \o source.content,
               warnings |-> <<>>]
    ELSE [status |-> "ok", text |-> source.content, warnings |-> <<>>]

\* src/build.py lines 1016-1029: as in the plugin's script, but temp_merged
\* does not exist when a front-matter file was named and not found
include_si_root(merged, source, frontmatter_file, include_si_refs, is_si, si_file) ==
    IF /\ include_si_refs /\ ~is_si
       /\ frontmatter_file # None /\ ~Exists(frontmatter_file)
       /\ extract_si_citations(si_file).text # <<>>
    THEN [status |-> "crash", text |-> merged]
    ELSE include_si(merged, source, frontmatter_file, include_si_refs, is_si, si_file)

----------------------------------------------------------------------------
(* build_digital_garden.                                                   *)

GARDEN == "garden_"

\* f"garden_{file_path.stem}"
GardenStem(file_path) == <<GARDEN>> \o Stem(file_path)

\* Lines 1213-1220: the member file one directive of the index names;
\* None when with_suffix() raises ValueError on an empty name
MemberPath(link) ==
    LET filename == Strip(BeforeFirst(link, BAR)) IN
    IF HasSuffix(filename) THEN filename
    ELSE IF filename = <<>> THEN None
    ELSE WithSuffixMd(filename)

\* Lines 1208-1220: files_to_build
RECURSIVE ExistingMembers(_)
ExistingMembers(links) ==
    IF links = <<>> THEN <<>>
    ELSE LET file_path == MemberPath(Head(links)) IN
         (IF Exists(file_path) THEN <<file_path>> ELSE <<>>)
             \o ExistingMembers(Tail(links))

MemberFileList(content) == ExistingMembers(FindTransclusions(content, 1))

\* re.search(r"#(fig:...)", line) / re.search(r"#(tbl:...)", line): the first
\* label token of the kind on the line, "" when there is none
SearchLabel(line, tokens) ==
    LET p == FirstIn(line, tokens, 1) IN IF p = 0 THEN "" ELSE LabelKey[line[p]]

\* global_label_map[key] = value
\* a map that keeps the first value of a key
PutIfAbsent(map, key, value) ==
    [k \in DOMAIN map \cup {key} |-> IF k \in DOMAIN map THEN map[k] ELSE value]

Put(map, key, value) ==
    [k \in DOMAIN map \cup {key} |-> IF k = key THEN value ELSE map[k]]

EmptyMap == [k \in {} |-> 0]

\* Lines 1268-1282: the body of the line walk for one line.  st carries
\* current_fig, current_tbl, the label map and the history of numbers given.
WalkLine(st, line, file_stem, lineno) ==
    IF Contains(line, FIGURE)
    THEN LET key == SearchLabel(line, FigLabelTokens)
             given == [kind |-> "fig", num |-> st.current_fig + 1, label |-> key,
                       file |-> file_stem, line |-> lineno]
         IN [current_fig |-> st.current_fig + 1,
             current_tbl |-> st.current_tbl,
             map |-> IF key # ""
                     THEN Put(st.map, key, [num |-> st.current_fig + 1, file |-> file_stem])
                     ELSE st.map,
             given |-> Append(st.given, given)]
    ELSE IF Contains(line, TABLE)
    THEN LET key == SearchLabel(line, TblLabelTokens)
             given == [kind |-> "tbl", num |-> st.current_tbl + 1, label |-> key,
                       file |-> file_stem, line |-> lineno]
         IN [current_fig |-> st.current_fig,
             current_tbl |-> st.current_tbl + 1,
             map |-> IF key # ""
                     THEN Put(st.map, key, [num |-> st.current_tbl + 1, file |-> file_stem])
                     ELSE st.map,
             given |-> Append(st.given, given)]
    ELSE st

\* Lines 1267-1282: for line in content.splitlines()
RECURSIVE WalkLines(_, _, _, _)
WalkLines(st, lines, file_stem, lineno) ==
    IF lineno > Len(lines) THEN st
    ELSE WalkLines(WalkLine(st, lines[lineno], file_stem, lineno),
                   lines, file_stem, lineno + 1)

\* a navigation whose first member has the last member as its previous one
\* (files_to_build[i-1] without the test i > 0)
NavLinksAround(files, idx) ==
    LET has_prev == Len(files) > 1
        has_next == idx < Len(files)
        prev_file == IF idx > 1 THEN files[idx - 1] ELSE files[Len(files)]
    IN IF ~has_prev /\ ~has_next THEN <<>>
       ELSE <<NL, NL, DELIM, NL, NL>>
            \o (IF has_prev
                THEN <<"[<- Previous](">> \o GardenStem(prev_file) \o <<MD, ")", SPACE>>
                ELSE <<>>)
            \o (IF has_prev /\ has_next THEN <<SPACE, BAR, SPACE>> ELSE <<>>)
            \o (IF has_next
                THEN <<"[Next ->](">> \o GardenStem(files[idx + 1]) \o <<MD, ")">>
                ELSE <<>>)

\* Lines 1306-1317: the navigation block appended to member idx of files
NavLinks(files, idx) ==
    LET has_prev == idx > 1
        has_next == idx < Len(files)
    IN IF ~has_prev /\ ~has_next THEN <<>>
       ELSE <<NL, NL, DELIM, NL, NL>>
            \o (IF has_prev
                THEN <<"[<- Previous](">> \o GardenStem(files[idx - 1]) \o <<MD, ")", SPACE>>
                ELSE <<>>)
            \o (IF has_prev /\ has_next THEN <<SPACE, BAR, SPACE>> ELSE <<>>)
            \o (IF has_next
                THEN <<"[Next ->](">> \o GardenStem(files[idx + 1]) \o <<MD, ")">>
                ELSE <<>>)

\* leftmost, non-overlapping str.replace(old, new) on token sequences
RECURSIVE Replace(_, _, _)
Replace(text, old, new) ==
    IF Len(text) < Len(old) THEN text
    ELSE IF SubSeq(text, 1, Len(old)) = old
         THEN new \o Replace(SubSeq(text, Len(old) + 1, Len(text)), old, new)
         ELSE <<Head(text)>> \o Replace(Tail(text), old, new)

\* the backslash
BS == "\\"

\* Lines 1356-1358: what the conversion step does to the characters the build
\* puts back: "Pandoc escapes [[ as \[\[, _ as \_, and * as \*".  The escaped
\* text is written character by character.
PandocEscapes(text) ==
    Replace(Replace(Replace(Replace(text, <<OPEN>>, <<BS, "[", BS, "[">>),
                            <<CLOSE>>, <<BS, "]", BS, "]">>),
                    <<"_">>, <<BS, "_">>),
            <<"*">>, <<BS, "*">>)

\* Lines 1359-1362: the replace chain on built_content, character by
\* character
RemoveEscapes(built_content) ==
    LET b1 == Replace(Replace(built_content, <<BS, "[", BS, "[">>, <<"[", "[">>),
                      <<BS, "]", BS, "]">>, <<"]", "]">>)
        b2 == Replace(Replace(b1, <<BS, "[">>, <<"[">>), <<BS, "]">>, <<"]">>)
        b3 == Replace(b2, <<BS, "_">>, <<"_">>)
    IN Replace(b3, <<BS, "*">>, <<"*">>)

\* frontmatter = f"---\ntitle: \"{file_path.stem}\"\n---\n\n"
TitleBlock(file_path) ==
    <<DELIM, NL, "title: ", "\"">> \o Stem(file_path) \o <<"\"", NL, DELIM, NL, NL>>

\* a wikilink  [[...]]  starts at position p
LinkAt(text, p) == text[p] = OPEN /\ CloseAt(text, p + 1) # 0

\* Lines 1375-1388: _fix_links on match.group(1)
fix_links(inner) ==
    LET path_part == BeforeFirst(inner, BAR)
        alias_part == IF Contains(inner, BAR) THEN SecondPart(inner, BAR) ELSE <<>>
        stem == Stem(path_part)
        new_stem == <<GARDEN>> \o stem
    IN IF alias_part # <<>>
       THEN <<OPEN>> \o new_stem \o <<BAR>> \o alias_part \o <<CLOSE>>
       ELSE <<OPEN>> \o new_stem \o <<BAR>> \o stem \o <<CLOSE>>

\* Line 1373: re.sub(r"!\[\[(.*?)\]\]", r"- [[\1]]", index_content)
RECURSIVE BulletLinks(_, _)
BulletLinks(text, p) ==
    IF p > Len(text) THEN <<>>
    ELSE IF DirectiveAt(text, p)
         THEN LET q == CloseAt(text, p + 2) IN
              <<"-", SPACE>> \o SubSeq(text, p + 1, q) \o BulletLinks(text, q + 1)
         ELSE <<text[p]>> \o BulletLinks(text, p + 1)

\* Line 1390: re.sub(r"\[\[(.*?)\]\]", _fix_links, index_content)
RECURSIVE FixAllLinks(_, _)
FixAllLinks(text, p) ==
    IF p > Len(text) THEN <<>>
    ELSE IF LinkAt(text, p)
         THEN LET q == CloseAt(text, p + 1) IN
              fix_links(SubSeq(text, p + 1, q - 1)) \o FixAllLinks(text, q + 1)
         ELSE <<text[p]>> \o FixAllLinks(text, p + 1)

\* Lines 1370-1390: the rewritten index
IndexContent(content) == FixAllLinks(BulletLinks(content, 1), 1)

----------------------------------------------------------------------------
(* The run of build_digital_garden(source_file, config).                   *)

Terminal == {"returned", "done", "exited", "crashed"}

\* an output directory that is left as it was found
NotRecreated(dir) == dir

\* Lines 1188-1191: shutil.rmtree(garden_dir), garden_dir.mkdir()
Recreated(dir) == EmptyMap

\* Lines 1188-1237: recreate the output directory, read the index, list the
\* member files, initialise the counters.  open() of the index is in no try
\* block, and neither is with_suffix() of an empty name.
\* The messages of lines 1200 and 1223 are kept with the warnings.
Start ==
    /\ pc = "start"
    /\ garden_dir' = Recreated(garden_dir)
    /\ LET source_file == args.source_file
           readable == Exists(source_file) /\ source_file \notin unreadable
           content == IF readable THEN disk[source_file] ELSE <<>>
           links == FindTransclusions(content, 1)
           raises == \E n \in 1..Len(links) : Strip(BeforeFirst(links[n], BAR)) = <<>>
           files == MemberFileList(content)
       IN /\ master_content' = content
          /\ files_to_build' = IF readable /\ ~raises THEN files ELSE <<>>
          /\ pc' = IF ~Exists(source_file) THEN "returned"
                   ELSE IF ~readable \/ raises THEN "crashed"
                   ELSE IF files = <<>> THEN "returned"
                   ELSE "prescan"
          /\ cause' = IF ~Exists(source_file) THEN ""
                      ELSE IF ~readable THEN "index unreadable"
                      ELSE IF raises THEN "empty member name"
                      ELSE ""
          /\ warnings' = IF ~Exists(source_file)
                         THEN Append(warnings, Warning("Error: Source file not found",
                                                       source_file))
                         ELSE IF readable /\ ~raises /\ files = <<>>
                         THEN Append(warnings,
                                     Warning("No files found in Master file transclusions",
                                             <<>>))
                         ELSE warnings
    /\ cumulative_figures' = 0
    /\ cumulative_tables' = 0
    /\ file_offsets' = <<>>
    /\ global_label_map' = EmptyMap
    /\ scanned' = 0
    /\ UNCHANGED <<disk, unreadable, args, i, numbered, handed, temp_merged, result>>

\* an entry that repeats the running counters for a file that was not read
RunningOffsets ==
    [figure_offset |-> cumulative_figures, table_offset |-> cumulative_tables]

\* Line 1288: the entry of a file that could not be pre-scanned
ZeroOffsets == [figure_offset |-> 0, table_offset |-> 0]

\* Lines 1239-1288: one iteration of the pre-scan loop
PreScanFile ==
    /\ pc = "prescan"
    /\ LET file_path == files_to_build[scanned + 1] IN
       IF file_path \in unreadable
       THEN /\ warnings' = Append(warnings, Warning("Could not pre-scan", file_path))
            /\ file_offsets' = Append(file_offsets, ZeroOffsets)
            /\ UNCHANGED <<cumulative_figures, cumulative_tables, global_label_map,
                           numbered>>
       ELSE LET content == disk[file_path]
                num_figures == CountOcc(content, FIGURE)
                num_tables == CountOcc(content, TABLE)
                st == WalkLines([current_fig |-> cumulative_figures,
                                 current_tbl |-> cumulative_tables,
                                 map |-> global_label_map,
                                 given |-> <<>>],
                                SplitLines(content), GardenStem(file_path), 1)
            IN /\ file_offsets' = Append(file_offsets,
                                         [figure_offset |-> cumulative_figures,
                                          table_offset |-> cumulative_tables])
               /\ global_label_map' = st.map
               /\ numbered' = numbered \o st.given
               /\ cumulative_figures' = cumulative_figures + num_figures
               /\ cumulative_tables' = cumulative_tables + num_tables
               /\ UNCHANGED warnings
    /\ scanned' = scanned + 1
    /\ pc' = IF scanned + 1 = Len(files_to_build) THEN "build" ELSE "prescan"
    /\ i' = IF scanned + 1 = Len(files_to_build) THEN 1 ELSE i
    /\ UNCHANGED <<disk, unreadable, args, garden_dir, master_content, files_to_build,
                   handed, temp_merged, cause, result>>

\* Lines 1290-1366: one iteration of the per-file build loop.  open() of the
\* member (line 1302) is in no try block; build_document ends the process with
\* sys.exit(1) when the conversion fails (lines 1679-1687).
\* lines 1325-1366 for member file_path, doc being what build_document makes of
\* the temporary file and pandoc_ok the outcome of the conversion
\* a call that passes only the labels of the member itself
CallWithOwnLabels(file_path, doc, pandoc_ok) ==
    [source |-> file_path,
     text |-> doc.text,
     figure_offset |-> file_offsets[i].figure_offset,
     table_offset |-> file_offsets[i].table_offset,
     global_labels |-> [k \in {l \in DOMAIN global_label_map :
                                  global_label_map[l].file = GardenStem(file_path)} |->
                           global_label_map[k]],
     ok |-> pandoc_ok]

\* Lines 1325-1344: what build_document is called with for member i
Call(file_path, doc, pandoc_ok) ==
    [source |-> file_path,
     text |-> doc.text,
     figure_offset |-> file_offsets[i].figure_offset,
     table_offset |-> file_offsets[i].table_offset,
     global_labels |-> global_label_map,
     ok |-> pandoc_ok]

ConvertMember(file_path, doc, pandoc_ok) ==
    /\ handed' = Append(handed, Call(file_path, doc, pandoc_ok))
    /\ warnings' = warnings \o doc.warnings
    /\ temp_merged' = doc.text
    /\ IF pandoc_ok
       THEN /\ garden_dir' = Put(garden_dir, GardenStem(file_path) \o <<MD>>,
                                 TitleBlock(file_path)
                                     \o RemoveEscapes(PandocEscapes(doc.text)))
            /\ pc' = IF i = Len(files_to_build) THEN "index" ELSE "build"
            /\ i' = IF i = Len(files_to_build) THEN i ELSE i + 1
            /\ UNCHANGED cause
       ELSE /\ pc' = "exited"
            /\ cause' = "collaborator"
            /\ UNCHANGED <<garden_dir, i>>

BuildMember ==
    /\ pc = "build"
    /\ \E pandoc_ok \in BOOLEAN :
       IF files_to_build[i] \in unreadable
       THEN /\ pc' = "crashed"
            /\ cause' = "member unreadable"
            /\ UNCHANGED <<handed, warnings, garden_dir, temp_merged, i>>
       ELSE ConvertMember(files_to_build[i],
                build_document_input(
                    [readable |-> TRUE,
                     content |-> disk[files_to_build[i]] \o NavLinks(files_to_build, i)],
                    None, FALSE, FALSE, None),
                pandoc_ok)
    /\ UNCHANGED <<disk, unreadable, args, master_content, files_to_build,
                   cumulative_figures, cumulative_tables, file_offsets,
                   global_label_map, scanned, numbered, result>>

\* Lines 1368-1398: write the index with links instead of transclusions
WriteIndex ==
    /\ pc = "index"
    /\ garden_dir' = Put(garden_dir, GardenStem(args.source_file) \o <<MD>>,
                         IndexContent(master_content))
    /\ pc' = "done"
    /\ UNCHANGED <<disk, unreadable, args, master_content, files_to_build,
                   cumulative_figures, cumulative_tables, file_offsets,
                   global_label_map, scanned, i, numbered, handed, warnings,
                   temp_merged, cause, result>>

Next == Start \/ PreScanFile \/ BuildMember \/ WriteIndex

----------------------------------------------------------------------------
(* Collections the garden build is run on.                                 *)

MasterFile == <<"Master", MD>>
HelperFile == <<"h", MD>>

\* the index: three directives, one with an alias
MasterIndex ==
    <<"x", NL,
      BANG, OPEN, "a", CLOSE, NL,
      BANG, OPEN, "b", BAR, "B", CLOSE, NL,
      BANG, OPEN, "c", MD, CLOSE, NL>>

MemberNames == <<"a", "b", "c">>

\* the lines a member file is made of
LineKinds ==
    { <<"x">>,
      <<FIGURE>>,
      <<FIGURE, "#fig:a">>,
      <<TABLE, "#tbl:a">>,
      <<FIGURE, "#fig:b", "x", FIGURE>>,
      <<FIGURE, TABLE, "#tbl:a">>,
      <<BANG, OPEN, "h", CLOSE>> }

\* the file whose lines are lines[from + 1 .. from + n], each ended by a line break
RECURSIVE FileText(_, _, _)
FileText(lines, from, n) ==
    IF n = 0 THEN <<>>
    ELSE lines[from + 1] \o <<NL>> \o FileText(lines, from + 1, n - 1)

\* export/garden as an earlier build with other members left it
StaleDir ==
    [f \in {<<GARDEN, "old", MD>>, <<GARDEN, "a", MD>>, <<GARDEN, "Master", MD>>} |->
        <<"stale">>]

InitLocals ==
    /\ garden_dir = StaleDir
    /\ master_content = <<>>
    /\ files_to_build = <<>>
    /\ cumulative_figures = 0
    /\ cumulative_tables = 0
    /\ file_offsets = <<>>
    /\ global_label_map = EmptyMap
    /\ scanned = 0
    /\ i = 0
    /\ numbered = <<>>
    /\ handed = <<>>
    /\ warnings = <<>>
    /\ temp_merged = <<>>
    /\ cause = ""
    /\ result = <<>>

\* The collection of the offsets scenario: three readable members with
\* (2 figures, 0 tables), (1 figure, 1 table), (0 figures, 2 tables), every
\* marker on a line of its own and labelled.
ScenarioDisk ==
    [path \in {MasterFile, HelperFile, <<"a", MD>>, <<"b", MD>>, <<"c", MD>>} |->
        IF path = MasterFile THEN MasterIndex
        ELSE IF path = HelperFile THEN <<FIGURE, "#fig:h", NL>>
        ELSE IF path = <<"a", MD>>
             THEN <<FIGURE, "#fig:a", NL, "x", NL, FIGURE, "#fig:b", NL>>
        ELSE IF path = <<"b", MD>>
             THEN <<FIGURE, "#fig:c", NL, TABLE, "#tbl:a", NL>>
        ELSE <<TABLE, "#tbl:b", NL, TABLE, "#tbl:c", NL>>]

\* Every collection of at most MaxLines lines over the index MasterIndex: each
\* member missing or present, at most one present member unreadable.
BoundedCollection ==
    /\ \E present \in SUBSET {1, 2, 3} :
       \E count \in [{1, 2, 3} -> 0..MaxLines] :
       \E u \in {{}} \cup {{<<MemberNames[m], MD>>} : m \in present} :
          LET total == count[1] + count[2] + count[3] IN
          /\ total <= MaxLines
          /\ \A m \in {1, 2, 3} \ present : count[m] = 0
          /\ \E lines \in [1..total -> LineKinds] :
                disk = [path \in {MasterFile, HelperFile}
                                    \cup {<<MemberNames[m], MD>> : m \in present} |->
                          IF path = MasterFile THEN MasterIndex
                          ELSE IF path = HelperFile THEN <<FIGURE, "#fig:h", NL>>
                          ELSE IF path = <<"a", MD>> THEN FileText(lines, 0, count[1])
                          ELSE IF path = <<"b", MD>>
                               THEN FileText(lines, count[1], count[2])
                          ELSE FileText(lines, count[1] + count[2], count[3])]
          /\ unreadable = u

Init ==
    /\ InitLocals
    /\ pc = "start"
    /\ args = [mode |-> "garden", source_file |-> MasterFile]
    /\ \/ BoundedCollection
       \/ disk = ScenarioDisk /\ unreadable = {}

Spec == Init /\ [][Next]_vars

----------------------------------------------------------------------------
(* Index files the garden build is run on.                                 *)

\* number of lines of the index file
MaxEntries == 3

\* ![[inner]] as it stands in a text
Directive(inner) == <<BANG, OPEN>> \o inner \o <<CLOSE>>

\* the lines of an index file: plain text, an ordinary link, directives
\* (plain, with an alias, with a suffix, padded with blanks, with a blank
\* before the alias separator, of a missing file)
IndexEntries ==
    { <<"x", NL>>,
      <<OPEN, "a", CLOSE, NL>>,
      Directive(<<"a">>) \o <<NL>>,
      Directive(<<"b", BAR, "B">>) \o <<NL>>,
      Directive(<<"a", ".txt">>) \o <<NL>>,
      Directive(<<SPACE, "a", SPACE>>) \o <<NL>>,
      Directive(<<"a", SPACE, BAR, "A">>) \o <<NL>>,
      Directive(<<"ghost">>) \o <<NL>> }

\* the files next to the index file
IndexDisk(index, present) ==
    [path \in {MasterFile} \cup present |->
        IF path = MasterFile THEN index
        ELSE IF path = <<"a", MD>> THEN <<FIGURE, "#fig:a", NL>>
        ELSE IF path = <<"b", MD>> THEN <<TABLE, "#tbl:a", NL>>
        ELSE <<"t", NL>>]

\* an index file of at most MaxEntries lines next to some of the files its
\* directives name (among them a file "a" without extension), or no index
\* file at all
InitIndex ==
    /\ InitLocals
    /\ pc = "start"
    /\ \E present \in SUBSET {<<"a", MD>>, <<"b", MD>>, <<"a", ".txt">>}
                           \cup {{<<"a">>}, {<<"a">>, <<"a", MD>>}} :
       \/ \E n \in 0..MaxEntries : \E entries \in [1..n -> IndexEntries] :
             /\ args = [mode |-> "garden", source_file |-> MasterFile,
                        entries |-> entries]
             /\ disk = IndexDisk(Flatten(entries), present)
       \/ /\ args = [mode |-> "garden", source_file |-> MasterFile, entries |-> <<>>]
          /\ disk = [path \in present |-> IndexDisk(<<>>, present)[path]]
    /\ unreadable = {}

SpecIndex == InitIndex /\ [][Next]_vars

----------------------------------------------------------------------------
(* The run of build_document in single-document mode.                      *)

MergeDone(m) ==
    /\ temp_merged' = m.text
    /\ warnings' = warnings \o m.warnings
    /\ pc' = IF m.status = "ok" THEN "merged"
             ELSE IF m.status = "exit" THEN "exited" ELSE "crashed"
    /\ cause' = IF m.status = "ok" THEN "" ELSE "source"

SiDone(s) ==
    /\ temp_merged' = s.text
    /\ pc' = IF s.status = "ok" THEN "ready" ELSE "crashed"
    /\ cause' = IF s.status = "ok" THEN "" ELSE "si file unreadable"

\* open(source_file) as build_document finds the file
SourceOf(source_file) ==
    [readable |-> Exists(source_file) /\ source_file \notin unreadable,
     content |-> IF Exists(source_file) THEN disk[source_file] ELSE <<>>]

\* Lines 1454-1491: resolve the transclusions of the source, merge the
\* front-matter, write temp_merged; any exception ends the process.  The
\* script at the repository root merges in lines 1004-1014 of src/build.py.
DocMerge ==
    /\ pc = "doc"
    /\ MergeDone(IF args.script = "root"
                 THEN merge_source_root(SourceOf(args.source_file), args.frontmatter_file)
                 ELSE merge_source(SourceOf(args.source_file), args.frontmatter_file))
    /\ UNCHANGED <<disk, unreadable, args, garden_dir, master_content, files_to_build,
                   cumulative_figures, cumulative_tables, file_offsets,
                   global_label_map, scanned, i, numbered, handed, result>>

\* Lines 1493-1506: copy the source over temp_merged when no front-matter file
\* was given, prepend the nocite block
DocSiRefs ==
    /\ pc = "merged"
    /\ SiDone(IF args.script = "root"
              THEN include_si_root(temp_merged, SourceOf(args.source_file),
                                   args.frontmatter_file, args.include_si_refs,
                                   args.is_si, args.si_file)
              ELSE include_si(temp_merged, SourceOf(args.source_file),
                              args.frontmatter_file, args.include_si_refs, args.is_si,
                              args.si_file))
    /\ UNCHANGED <<disk, unreadable, args, garden_dir, master_content, files_to_build,
                   cumulative_figures, cumulative_tables, file_offsets,
                   global_label_map, scanned, i, numbered, handed, warnings, result>>

\* Lines 1676-1704: run pandoc on temp_merged; a failure ends the process
DocConvert ==
    /\ pc = "ready"
    /\ \E pandoc_ok \in BOOLEAN :
          /\ handed' = Append(handed, [source |-> args.source_file,
                                       text |-> temp_merged,
                                       figure_offset |-> 0,
                                       table_offset |-> 0,
                                       global_labels |-> EmptyMap,
                                       ok |-> pandoc_ok])
          /\ pc' = IF pandoc_ok THEN "done" ELSE "exited"
          /\ cause' = IF pandoc_ok THEN "" ELSE "collaborator"
    /\ UNCHANGED <<disk, unreadable, args, garden_dir, master_content, files_to_build,
                   cumulative_figures, cumulative_tables, file_offsets,
                   global_label_map, scanned, i, numbered, warnings, temp_merged,
                   result>>

NextDoc == DocMerge \/ DocSiRefs \/ DocConvert

\* the documents build_document is run on
MainFile == <<"main", MD>>
FrontFile == <<"front", MD>>
SiFile == <<"si", MD>>
IncludedFile == <<"a", MD>>

SourceTexts ==
    { <<"x", NL>>,
      <<"x", BANG, OPEN, "a", CLOSE, "y", NL>>,
      <<DELIM, NL, "title: T", NL, DELIM, NL, "x", BANG, OPEN, "a", CLOSE, NL>>,
      <<DELIM, NL, "x", BANG, OPEN, "ghost", CLOSE, NL>> }

SiTexts == { <<"s", "e", "e", " ", "@", "d", "o", "e", "2">>, <<"s", "e", "e">> }

DocDisk(src, si, has_a) ==
    [path \in {MainFile, FrontFile, SiFile}
                  \cup (IF has_a THEN {IncludedFile} ELSE {}) |->
        IF path = MainFile THEN src
        ELSE IF path = FrontFile THEN <<DELIM, NL, "author: F", NL, DELIM, NL>>
        ELSE IF path = SiFile THEN si
        ELSE <<DELIM, NL, "k: v", NL, DELIM, NL, "A", NL>>]

InitDoc ==
    /\ InitLocals
    /\ pc = "doc"
    /\ \E src \in SourceTexts, si \in SiTexts, has_a \in BOOLEAN :
          disk = DocDisk(src, si, has_a)
    /\ unreadable \in {{}, {MainFile}, {FrontFile}, {SiFile}}
    /\ \E fm \in {None, FrontFile, <<"nofront", MD>>}, sf \in {None, SiFile},
          inc \in BOOLEAN, si \in BOOLEAN, script \in {"plugin", "root"} :
          args = [mode |-> "single", script |-> script, source_file |-> MainFile,
                  frontmatter_file |-> fm, include_si_refs |-> inc, is_si |-> si,
                  si_file |-> sf]

SpecDoc == InitDoc /\ [][NextDoc]_vars

----------------------------------------------------------------------------
(* resolve_transclusions and extract_si_citations as functions of their    *)
(* input.                                                                  *)

\* number of pieces the content given to resolve_transclusions is made of
MaxSegments == 2

\* number of words in the text given to extract_si_citations
MaxWords == 4

\* result = resolve_transclusions(content, base_dir)
Resolve ==
    /\ pc = "resolve"
    /\ result' = resolve_transclusions(Flatten(args.segments))
    /\ pc' = "done"
    /\ UNCHANGED <<disk, unreadable, args, garden_dir, master_content, files_to_build,
                   cumulative_figures, cumulative_tables, file_offsets,
                   global_label_map, scanned, i, numbered, handed, warnings,
                   temp_merged, cause>>

NextResolve == Resolve

\* the pieces of a content: plain text, an ordinary link, a directive that
\* is not closed on its line, and inclusion directives
Segments ==
    { <<"x">>, <<NL>>,
      <<OPEN, "a", CLOSE>>,
      <<BANG, OPEN, "a", NL>>,
      Directive(<<"a">>),
      Directive(<<"b", BAR, "alias">>),
      Directive(<<SPACE, "a", MD, SPACE>>),
      Directive(<<"ghost">>),
      Directive(<<"ghost", MD>>) }

\* the contents of a.md: plain, with a metadata block (followed by a body, by
\* a body in blank space, by a body that includes b.md), with an unclosed
\* metadata block, including b.md, including itself
BodiesA ==
    { <<"A", NL>>,
      <<DELIM, NL, "title: X", NL, DELIM, NL, "Body">>,
      <<DELIM, NL, "title: X", NL, DELIM, NL, NL, "Body", SPACE, NL>>,
      <<DELIM, NL, "title: X", NL, DELIM, NL, "Body", BANG, OPEN, "b", CLOSE>>,
      <<DELIM, NL, "A">>,
      <<"A", BANG, OPEN, "b", CLOSE>>,
      <<BANG, OPEN, "a", CLOSE>> }

\* the contents of b.md: plain, including a.md, including a missing file
BodiesB ==
    { <<"B">>,
      <<"B", BANG, OPEN, "a", CLOSE>>,
      <<BANG, OPEN, "ghost", CLOSE, "B">> }

InitResolve ==
    /\ InitLocals
    /\ pc = "resolve"
    /\ \E n \in 0..MaxSegments : \E segs \in [1..n -> Segments] :
          args = [mode |-> "resolve", segments |-> segs]
    /\ \E a \in BodiesA, b \in BodiesB :
          disk = [path \in {<<"a", MD>>, <<"b", MD>>} |->
                     IF path = <<"a", MD>> THEN a ELSE b]
    /\ unreadable \in {{}, {<<"a", MD>>}, {<<"b", MD>>}}

SpecResolve == InitResolve /\ [][NextResolve]_vars

\* result = extract_si_citations(si_file)
Extract ==
    /\ pc = "extract"
    /\ result' = extract_si_citations(args.si_file)
    /\ pc' = "done"
    /\ UNCHANGED <<disk, unreadable, args, garden_dir, master_content, files_to_build,
                   cumulative_figures, cumulative_tables, file_offsets,
                   global_label_map, scanned, i, numbered, handed, warnings,
                   temp_merged, cause>>

NextCite == Extract

Chars_doe2020 == <<"@", "d", "o", "e", "2", "0", "2", "0">>
Chars_smith2021 == <<"@", "s", "m", "i", "t", "h", "2", "0", "2", "1">>
Chars_Fig1 == <<"@", "F", "i", "g", ":", "1">>
Chars_Tbl2 == <<"@", "T", "b", "l", ":", "2">>
Chars_email == <<"@", "e", "m", "a", "i", "l">>
Chars_Figueroa2020 ==
    <<"@", "F", "i", "g", "u", "e", "r", "o", "a", "2", "0", "2", "0">>

\* the words of an SI text: citation keys, cross-references, the e-mail
\* sigil, a key that begins with the letters of a cross-reference, an
\* upper-case key, plain text
Words ==
    { Chars_doe2020, Chars_smith2021, Chars_Fig1, Chars_Tbl2,
      Chars_email, Chars_Figueroa2020,
      <<"@", "T", "o", "m">>,
      <<"s", "e", "e">> }

\* words separated by blanks
RECURSIVE JoinWords(_)
JoinWords(ws) ==
    IF ws = <<>> THEN <<>>
    ELSE IF Len(ws) = 1 THEN ws[1]
    ELSE ws[1] \o <<SPACE>> \o JoinWords(Tail(ws))

InitCite ==
    /\ InitLocals
    /\ pc = "extract"
    /\ \E n \in 0..MaxWords : \E ws \in [1..n -> Words] :
          /\ args = [mode |-> "cite", si_file |-> SiFile, words |-> ws]
          /\ disk = [path \in {SiFile} |-> JoinWords(ws)]
    /\ unreadable = {}

SpecCite == InitCite /\ [][NextCite]_vars

----------------------------------------------------------------------------
(* The replace chain of lines 1359-1362 as a function of the text that the *)
(* conversion step has written.                                            *)

\* number of characters of the converted text
MaxChars == 5

\* the characters of a converted text: the backslash, the characters the
\* chain puts back, and any other character
EscapeChars == {BS, "[", "]", "_", "*", "x"}

\* built_content = ... .replace(...)
Normalize ==
    /\ pc = "normalize"
    /\ result' = [text |-> RemoveEscapes(args.built_content)]
    /\ pc' = "done"
    /\ UNCHANGED <<disk, unreadable, args, garden_dir, master_content, files_to_build,
                   cumulative_figures, cumulative_tables, file_offsets,
                   global_label_map, scanned, i, numbered, handed, warnings,
                   temp_merged, cause>>

NextNormalize == Normalize

InitNormalize ==
    /\ InitLocals
    /\ pc = "normalize"
    /\ \E n \in 0..MaxChars : \E text \in [1..n -> EscapeChars] :
          args = [mode |-> "normalize", built_content |-> text]
    /\ disk = EmptyMap
    /\ unreadable = {}

SpecNormalize == InitNormalize /\ [][NextNormalize]_vars

----------------------------------------------------------------------------
(* Properties of the pre-scan.                                             *)

\* the numbers the line walk gave to the marker lines of one kind, in order
NumbersGiven(kind) == SelectSeq(numbered, LAMBDA e : e.kind = kind)

\* the occurrences of a marker token in a text, counted one by one
RECURSIVE MarkersIn(_, _)
MarkersIn(text, tok) ==
    IF text = <<>> THEN 0
    ELSE (IF Head(text) = tok THEN 1 ELSE 0) + MarkersIn(Tail(text), tok)

\* the markers of a kind in the readable members before position idx
RECURSIVE MarkersBefore(_, _)
MarkersBefore(idx, tok) ==
    IF idx <= 1 THEN 0
    ELSE MarkersBefore(idx - 1, tok)
         + (IF files_to_build[idx - 1] \in unreadable THEN 0
            ELSE MarkersIn(disk[files_to_build[idx - 1]], tok))

\* the markers of a kind in all members before position idx
RECURSIVE AllMarkersBefore(_, _)
AllMarkersBefore(idx, tok) ==
    IF idx <= 1 THEN 0
    ELSE AllMarkersBefore(idx - 1, tok) + MarkersIn(disk[files_to_build[idx - 1]], tok)

\* C1: the numbers the pre-scan gives to the figure markers, in member order
\* and line order, are 1, 2, 3, ... without gap or reuse, also across a file
\* boundary; the same for the table markers with their own counter.
C1_NumbersConsecutive ==
    \A kind \in {"fig", "tbl"} :
        \A n \in 1..Len(NumbersGiven(kind)) : NumbersGiven(kind)[n].num = n

\* C2 as claimed: FileOffsets[idx] is the pair of the numbers of figure and
\* table markers in all member files before member idx.
C2_OffsetsCountAllPreceding ==
    \A idx \in 1..Len(file_offsets) :
        file_offsets[idx] = [figure_offset |-> AllMarkersBefore(idx, FIGURE),
                             table_offset |-> AllMarkersBefore(idx, TABLE)]

ScenarioCounts ==
    /\ Len(files_to_build) = 3
    /\ unreadable = {}
    /\ \A m \in 1..3 :
          <<MarkersIn(disk[files_to_build[m]], FIGURE),
            MarkersIn(disk[files_to_build[m]], TABLE)>>
              = <<<<2, 0>>, <<1, 1>>, <<0, 2>>>>[m]

\* every marker line the pre-scan numbered carries a label of its own
AllLabelled ==
    /\ \A n \in 1..Len(numbered) : numbered[n].label # ""
    /\ \A m, n \in 1..Len(numbered) :
          numbered[m].label = numbered[n].label => m = n

\* the highest number the GlobalLabelMap holds for the labels of a kind
HighestIn(tokens) ==
    LET nums == {global_label_map[key].num :
                    key \in {k \in DOMAIN global_label_map :
                                \E t \in tokens : LabelKey[t] = k}}
    IN IF nums = {} THEN 0 ELSE CHOOSE x \in nums : \A y \in nums : y <= x

\* C2 amended: the entry of a readable member is the pair of the numbers of
\* figure and table markers in the readable members before it, the entry of
\* an unreadable member is {0,0}; for readable members with marker counts
\* (2,0), (1,1), (0,2) the offsets are [{0,0}, {2,0}, {3,1}], both running
\* counters end at 3, and so do the highest figure and table numbers of the
\* GlobalLabelMap when every marker stands on a line of its own with a label
\* of its own.
C2_OffsetsCountReadablePreceding ==
    /\ \A idx \in 1..Len(file_offsets) :
          file_offsets[idx] =
              IF files_to_build[idx] \in unreadable
              THEN [figure_offset |-> 0, table_offset |-> 0]
              ELSE [figure_offset |-> MarkersBefore(idx, FIGURE),
                    table_offset |-> MarkersBefore(idx, TABLE)]
    /\ (ScenarioCounts /\ pc \in {"build", "index", "done", "exited"}) =>
          /\ file_offsets = <<[figure_offset |-> 0, table_offset |-> 0],
                              [figure_offset |-> 2, table_offset |-> 0],
                              [figure_offset |-> 3, table_offset |-> 1]>>
          /\ cumulative_figures = 3
          /\ cumulative_tables = 3
          /\ AllLabelled => (HighestIn(FigLabelTokens) = 3 /\ HighestIn(TblLabelTokens) = 3)

\* the offsets scenario has been pre-scanned
C2_Witness ==
    /\ ScenarioCounts
    /\ pc = "build"
    /\ Len(file_offsets) = 3
    /\ file_offsets[3] = [figure_offset |-> 3, table_offset |-> 1]

\* the positions of `numbered` that carry label key
Carrying(key) == {n \in 1..Len(numbered) : numbered[n].label = key}

Last(S) == CHOOSE n \in S : \A m \in S : m <= n

----------------------------------------------------------------------------
(* Properties of the per-file builds.                                      *)

MarkerToken(kind) == IF kind = "fig" THEN FIGURE ELSE TABLE
LabelTokens(kind) == IF kind = "fig" THEN FigLabelTokens ELSE TblLabelTokens

\* the positions of the markers of a kind in a text
MarkerPositions(text, kind) == {p \in 1..Len(text) : text[p] = MarkerToken(kind)}

\* the line of position p: the positions from the line break before p to the
\* line break after it
SameLine(text, p, q) ==
    \A r \in 1..Len(text) : (r >= p /\ r < q) \/ (r >= q /\ r < p) => text[r] # NL

\* the label a marker at position p carries: the first label of its kind on
\* its line, when p is the first marker of that kind on the line; else ""
LabelOfMarker(text, p, kind) ==
    LET labels == {q \in 1..Len(text) :
                      text[q] \in LabelTokens(kind) /\ SameLine(text, p, q)}
        first == \A q \in MarkerPositions(text, kind) : SameLine(text, p, q) => p <= q
    IN IF first /\ labels # {}
       THEN LabelKey[text[CHOOSE q \in labels : \A r \in labels : q <= r]]
       ELSE ""

\* offset + 1-based index of the marker among the markers of its kind in the
\* text handed to the collaborator
AbsoluteNumber(call, p, kind) ==
    (IF kind = "fig" THEN call.figure_offset ELSE call.table_offset)
        + Cardinality({q \in MarkerPositions(call.text, kind) : q <= p})

\* C3: for every labelled marker of every member, offset + index in the text
\* handed to the collaborator is the number the GlobalLabelMap holds for the
\* label, and no two markers of one kind get the same absolute number.
C3_BuildNumbersMatchLabelMap ==
    /\ \A n \in 1..Len(handed) : \A kind \in {"fig", "tbl"} :
          \A p \in MarkerPositions(handed[n].text, kind) :
              LabelOfMarker(handed[n].text, p, kind) # "" =>
                  /\ LabelOfMarker(handed[n].text, p, kind) \in DOMAIN global_label_map
                  /\ global_label_map[LabelOfMarker(handed[n].text, p, kind)].num
                        = AbsoluteNumber(handed[n], p, kind)
    /\ \A m, n \in 1..Len(handed) : \A kind \in {"fig", "tbl"} :
          \A p \in MarkerPositions(handed[m].text, kind) :
          \A q \in MarkerPositions(handed[n].text, kind) :
              <<m, p>> # <<n, q>> =>
                  AbsoluteNumber(handed[m], p, kind) # AbsoluteNumber(handed[n], q, kind)

IndexFile == GardenStem(MasterFile) \o <<MD>>

\* C4: when the conversion of one member has failed, the run still builds
\* every other member and writes the index before it ends.
C4_FailedMemberDoesNotStopBuild ==
    (pc \in Terminal /\ \E n \in 1..Len(handed) : ~handed[n].ok) =>
        /\ Len(handed) = Len(files_to_build)
        /\ IndexFile \in DOMAIN garden_dir

\* C6: a run ends abnormally only in single-document mode and only because
\* the conversion collaborator failed.
C6_OnlySingleDocumentConversionEndsRun ==
    pc \in {"exited", "crashed"} => (args.mode = "single" /\ cause = "collaborator")

----------------------------------------------------------------------------
(* Properties of the single-document build.                                *)

\* the directives of a text whose target file exists
ResolvableDirectives(text) ==
    {p \in 1..Len(text) :
        DirectiveAt(text, p) /\ Exists(TransclusionPath(MatchGroup(text, p)))}

\* C5: in every single-document build the text handed to the conversion
\* collaborator holds no inclusion directive whose target file exists.
C5_HandedTextIsResolved ==
    \A n \in 1..Len(handed) : ResolvableDirectives(handed[n].text) = {}

----------------------------------------------------------------------------
(* Properties of resolve_transclusions.                                    *)

IsDirective(seg) == Head(seg) = BANG /\ seg[Len(seg)] = CLOSE

\* the file a directive of the model names: its first word, with ".md"
SegTarget(seg) ==
    <<SelectSeq(seg, LAMBDA t : t \notin {BANG, OPEN, SPACE})[1], MD>>

MissingTarget(seg) == IsDirective(seg) /\ SegTarget(seg) \notin DOMAIN disk

\* the pieces of the content are resolved one by one
Resolved(seg) == resolve_transclusions(seg).text

NotFoundWarnings(ws) ==
    Cardinality({n \in 1..Len(ws) : ws[n].msg = "Transcluded file not found"})

MissingDirectives(segs) == Cardinality({n \in 1..Len(segs) : MissingTarget(segs[n])})

\* C8: resolve_transclusions raises nothing; a directive whose target does
\* not exist, with or without ".md", stays in the result as it is and a
\* warning is emitted for it; every other piece of the content is resolved
\* as if it stood alone.
C8_MissingTargetLeftVerbatim ==
    pc = "done" /\ args.mode = "resolve" =>
        /\ ~result.raised
        /\ result.text = Flatten([n \in 1..Len(args.segments) |->
                             IF MissingTarget(args.segments[n])
                             THEN args.segments[n]
                             ELSE Resolved(args.segments[n])])
        /\ NotFoundWarnings(result.warnings) >= MissingDirectives(args.segments)

\* a missing target next to a directive that was resolved
C8_Witness ==
    /\ pc = "done"
    /\ args.mode = "resolve"
    /\ args.segments = <<Directive(<<"ghost">>), Directive(<<"b", BAR, "alias">>)>>
    /\ disk[<<"b", MD>>] = <<"B">>
    /\ unreadable = {}
    /\ result.text = <<BANG, OPEN, "ghost", CLOSE, "B">>
    /\ NotFoundWarnings(result.warnings) = 1

\* the positions of the metadata delimiter in a text
Delimiters(text) == {p \in 1..Len(text) : text[p] = DELIM}

\* the included file can be read and begins with a closed metadata block
WithMetadata(seg) ==
    /\ IsDirective(seg)
    /\ SegTarget(seg) \in DOMAIN disk
    /\ SegTarget(seg) \notin unreadable
    /\ Head(disk[SegTarget(seg)]) = DELIM
    /\ Cardinality(Delimiters(disk[SegTarget(seg)])) >= 2

\* what follows the closing delimiter of the metadata block
AfterClosingDelimiter(text) ==
    LET closing == CHOOSE p \in Delimiters(text) :
                       Cardinality({q \in Delimiters(text) : q < p}) = 1
    IN SubSeq(text, closing + 1, Len(text))

\* the body of an included file, with the inclusions of the body resolved
BodyOf(seg) == resolve_at(AfterClosingDelimiter(disk[SegTarget(seg)]), 2).text

MetadataTokens == {"title: X"}

\* C9 as claimed: the text substituted for a directive whose file begins with
\* a metadata block is the body with leading and trailing whitespace trimmed.
C9_SubstitutesTrimmedBody ==
    pc = "done" /\ args.mode = "resolve" =>
        result.text = Flatten([n \in 1..Len(args.segments) |->
                          IF WithMetadata(args.segments[n])
                          THEN Strip(BodyOf(args.segments[n]))
                          ELSE Resolved(args.segments[n])])

\* C9 amended: the text substituted for a directive whose file begins with a
\* metadata block is all that follows the closing delimiter, not trimmed: the
\* metadata block does not appear, the newline after the closing delimiter
\* and the blank space around the body do.
C9_SubstitutesUntrimmedRemainder ==
    pc = "done" /\ args.mode = "resolve" =>
        /\ result.text = Flatten([n \in 1..Len(args.segments) |->
                             IF WithMetadata(args.segments[n])
                             THEN BodyOf(args.segments[n])
                             ELSE Resolved(args.segments[n])])
        /\ (\A n \in 1..Len(args.segments) :
               IsDirective(args.segments[n]) => WithMetadata(args.segments[n]))
           => \A p \in 1..Len(result.text) :
                  result.text[p] \notin MetadataTokens \cup {DELIM}

\* a file with a metadata block was included, its body came with the newline
\* before it and the blank space after it
C9_Witness ==
    /\ pc = "done"
    /\ args.mode = "resolve"
    /\ args.segments = <<<<"x">>, Directive(<<"a">>)>>
    /\ disk[<<"a", MD>>] = <<DELIM, NL, "title: X", NL, DELIM, NL, NL, "Body", SPACE, NL>>
    /\ unreadable = {}
    /\ result.text = <<"x", NL, NL, "Body", SPACE, NL>>

----------------------------------------------------------------------------
(* Properties of extract_si_citations.                                     *)

\* the prefixes that exclude a key: the figure and the table cross-reference
\* sigils and the e-mail sigil
ExclusionPrefixes ==
    {<<"@", "F", "i", "g">>, <<"@", "T", "b", "l">>, <<"@", "e", "m", "a", "i", "l">>}

BeginsWith(w, prefix) ==
    Len(w) >= Len(prefix) /\ \A n \in 1..Len(prefix) : w[n] = prefix[n]

\* the citation keys among the words of the text that no prefix excludes
Cited(ws) ==
    {ws[n] : n \in {m \in 1..Len(ws) :
                       /\ Head(ws[m]) = "@"
                       /\ \A prefix \in ExclusionPrefixes : ~BeginsWith(ws[m], prefix)}}

\* the keys of a result, read back at the separators
RECURSIVE SplitKeys(_)
SplitKeys(text) ==
    IF text = <<>> THEN <<>>
    ELSE IF \E p \in 1..Len(text) : text[p] = ";"
         THEN <<SubSeq(text, 1, FirstIn(text, {";"}, 1) - 1)>>
                  \o SplitKeys(SubSeq(text, FirstIn(text, {";"}, 1) + 2, Len(text)))
         ELSE <<text>>

\* the keys L of a result are the cited keys, each once, the least first
KeysInOrder(L, cited) ==
    /\ {L[n] : n \in 1..Len(L)} = cited
    /\ Len(L) = Cardinality(cited)
    /\ \A n \in 1..(Len(L) - 1) : StrLess(L[n], L[n + 1])

\* every ";" of the result is followed by one blank, and by nothing else
\* than the next key
SeparatedBySemicolonBlank(text) ==
    \A p \in 1..Len(text) :
        /\ text[p] = ";" => (p + 2 <= Len(text) /\ text[p + 1] = " " /\ text[p + 2] = "@")
        /\ text[p] = " " => (p > 1 /\ text[p - 1] = ";")

----------------------------------------------------------------------------
(* Properties of the member list and of the rewritten index.               *)

\* an index line that is an inclusion directive, and what stands between
\* its brackets
EntryIsDirective(e) == Head(e) = BANG
EntryInner(e) == SubSeq(e, 3, Len(e) - 2)

\* the file name the directive gives: the words before the alias bar
EntryName(e) ==
    LET inner == EntryInner(e)
        bars == {p \in 1..Len(inner) : inner[p] = BAR}
        stop == IF bars = {} THEN Len(inner) + 1
                ELSE CHOOSE p \in bars : \A q \in bars : p <= q
    IN SelectSeq(SubSeq(inner, 1, stop - 1), LAMBDA t : t # SPACE)

\* the alias the directive gives, <<>> when it gives none
EntryAlias(e) ==
    LET inner == EntryInner(e)
        bars == {p \in 1..Len(inner) : inner[p] = BAR}
    IN IF bars = {} THEN <<>>
       ELSE SubSeq(inner, (CHOOSE p \in bars : \A q \in bars : p <= q) + 1, Len(inner))

\* the member file a directive names, ".md" being the default extension
EntryMember(e) ==
    IF EntryName(e)[Len(EntryName(e))] \in {MD, ".txt"}
    THEN EntryName(e) ELSE EntryName(e) \o <<MD>>

\* the file name of a member without its extension
MemberStem(path) == SubSeq(path, 1, Len(path) - 1)

\* a directive of the index whose target exists
NamesMember(e) == EntryIsDirective(e) /\ EntryMember(e) \in DOMAIN disk

\* C11: in the rewritten index every inclusion directive of a member is
\* replaced by the bullet entry  - [[garden_<stem>|<display>]]  where <stem>
\* is the member's file name stem and <display> the alias when the directive
\* gives one and the stem otherwise.
C11_DirectivesBecomeMemberLinks ==
    (pc = "done" /\ args.mode = "garden") =>
        \A n \in 1..Len(args.entries) :
            NamesMember(args.entries[n]) =>
                SplitLines(garden_dir[IndexFile])[n]
                    = <<"-", SPACE, OPEN, GARDEN>>
                          \o MemberStem(EntryMember(args.entries[n]))
                          \o <<BAR>>
                          \o (IF EntryAlias(args.entries[n]) # <<>>
                              THEN EntryAlias(args.entries[n])
                              ELSE MemberStem(EntryMember(args.entries[n])))
                          \o <<CLOSE>>

\* the set of the members of the list
Members == {files_to_build[n] : n \in 1..Len(files_to_build)}

\* the output file of a member
OutputName(path) == <<GARDEN>> \o MemberStem(path) \o <<MD>>

\* C12: two different member files never get the same output name, no member
\* gets the name of the rewritten index, and after the build the output
\* directory holds one file per member and the index.
C12_OutputNamesDoNotCollide ==
    /\ \A f, g \in Members : f # g => OutputName(f) # OutputName(g)
    /\ \A f \in Members : OutputName(f) # IndexFile
    /\ pc = "done" => Cardinality(DOMAIN garden_dir) = Cardinality(Members) + 1

\* the existing targets of the directives, each at its first appearance
RECURSIVE FirstAppearances(_, _)
FirstAppearances(entries, seen) ==
    IF entries = <<>> THEN <<>>
    ELSE IF NamesMember(Head(entries)) /\ EntryMember(Head(entries)) \notin seen
         THEN <<EntryMember(Head(entries))>>
                  \o FirstAppearances(Tail(entries),
                                      seen \cup {EntryMember(Head(entries))})
         ELSE FirstAppearances(Tail(entries), seen)

\* C14: the MemberFileList holds the existing targets of the index file's
\* directives in the order of their first appearance, each member file at one
\* position; the pre-scan and the per-file builds go through it in this order.
C14_MembersOnceInFirstAppearanceOrder ==
    pc \in {"prescan", "build", "index", "done", "exited"} =>
        /\ files_to_build = FirstAppearances(args.entries, {})
        /\ Len(file_offsets) = scanned
        /\ \A n \in 1..Len(handed) : handed[n].source = files_to_build[n]

\* the files this run has written so far
WrittenByRun ==
    {OutputName(handed[n].source) : n \in {m \in 1..Len(handed) : handed[m].ok}}
        \cup (IF pc = "done" THEN {IndexFile} ELSE {})

\* C13: the output directory is emptied before any member output is written:
\* once the build has started the directory holds only files this run wrote,
\* none with the content it had before.
C13_NoStaleOutput ==
    pc # "start" =>
        /\ DOMAIN garden_dir \subseteq WrittenByRun
        /\ \A f \in DOMAIN garden_dir : \A g \in DOMAIN StaleDir :
               garden_dir[f] # StaleDir[g]
        /\ pc = "prescan" => garden_dir = EmptyMap

\* a build over a directory that held garden_a.md and garden_old.md has
\* written garden_a.md anew
C13_Witness ==
    /\ pc = "done"
    /\ <<GARDEN, "a", MD>> \in DOMAIN garden_dir
    /\ <<GARDEN, "old", MD>> \notin DOMAIN garden_dir
    /\ garden_dir[<<GARDEN, "a", MD>>] # <<"stale">>

----------------------------------------------------------------------------
(* Properties of the front-matter merge.                                   *)

\* the text begins with a closed metadata block
HasLeadingMetadata(text) ==
    text # <<>> /\ Head(text) = DELIM /\ Cardinality(Delimiters(text)) >= 2

\* the source without its leading metadata block
SourceBody(text) ==
    IF HasLeadingMetadata(text) THEN AfterClosingDelimiter(text) ELSE text

FrontMatterSupplied ==
    args.frontmatter_file # None /\ args.frontmatter_file \in DOMAIN disk

\* C15: with front-matter supplied the merged text is the front-matter block,
\* a newline, and the body of the source (as it is or with its inclusions
\* resolved) without the source's own leading metadata block.
C15_MergeStripsSourceMetadata ==
    (pc = "merged" /\ args.mode = "single" /\ FrontMatterSupplied) =>
        \/ temp_merged = disk[args.frontmatter_file] \o <<NL>>
                            \o SourceBody(disk[args.source_file])
        \/ temp_merged = disk[args.frontmatter_file] \o <<NL>>
                            \o resolve_transclusions(SourceBody(disk[args.source_file])).text

----------------------------------------------------------------------------
(* resolve_transclusions on a text without directives.                     *)

\* the text holds  ![[ ... ]]  on one line
HasDirective(text) ==
    \E p, q \in 1..Len(text) :
        /\ p + 1 < q
        /\ text[p] = BANG
        /\ text[p + 1] = OPEN
        /\ text[q] = CLOSE
        /\ \A r \in (p + 2)..(q - 1) : text[r] # NL

\* C16: resolve_transclusions returns a text that holds no inclusion
\* directive as it is and warns about nothing, whatever files exist.
C16_NoDirectiveNoChange ==
    (pc = "done" /\ args.mode = "resolve" /\ ~HasDirective(Flatten(args.segments))) =>
        /\ ~result.raised
        /\ result.text = Flatten(args.segments)
        /\ result.warnings = <<>>

\* an ordinary link and a directive left open on its line went through
C16_Witness ==
    /\ pc = "done"
    /\ args.mode = "resolve"
    /\ args.segments = <<<<BANG, OPEN, "a", NL>>, <<OPEN, "a", CLOSE>>>>
    /\ <<"a", MD>> \in DOMAIN disk
    /\ result.text = <<BANG, OPEN, "a", NL, OPEN, "a", CLOSE>>

----------------------------------------------------------------------------
(* Properties of the line walk and of the running counters.                *)

\* the numbers the line walk gave to markers of a kind in member idx
GivenIn(idx, kind) ==
    {numbered[n].num : n \in {m \in 1..Len(numbered) :
                                 /\ numbered[m].kind = kind
                                 /\ numbered[m].file = GardenStem(files_to_build[idx])}}

OffsetOf(idx, kind) ==
    IF kind = "fig" THEN file_offsets[idx].figure_offset
    ELSE file_offsets[idx].table_offset

\* the number of the last marker of a kind in member idx, the offset of the
\* member when it has none
LastGiven(idx, kind) ==
    IF GivenIn(idx, kind) = {} THEN OffsetOf(idx, kind)
    ELSE CHOOSE x \in GivenIn(idx, kind) : \A y \in GivenIn(idx, kind) : y <= x

Counter(kind) == IF kind = "fig" THEN cumulative_figures ELSE cumulative_tables

\* C17: after the pre-scan of a readable member the running counter of a
\* kind, and the offset recorded for the next member, is the number the line
\* walk gave to the member's last marker of the kind, or the member's own
\* offset when it has none.
C17_LineWalkIsTheAccumulation ==
    args.mode = "garden" =>
        \A kind \in {"fig", "tbl"} : \A idx \in 1..Len(file_offsets) :
            files_to_build[idx] \notin unreadable =>
                /\ idx = scanned => Counter(kind) = LastGiven(idx, kind)
                /\ (idx < Len(file_offsets) /\ files_to_build[idx + 1] \notin unreadable)
                       => OffsetOf(idx + 1, kind) = LastGiven(idx, kind)

\* the lines of member idx, and the table label a line carries
LinesOf(idx) == SplitLines(disk[files_to_build[idx]])

TableLabelOn(line) ==
    LET at == {p \in 1..Len(line) : line[p] \in TblLabelTokens} IN
    IF at = {} THEN "" ELSE LabelKey[line[CHOOSE p \in at : \A q \in at : p <= q]]

\* C18: every line of a pre-scanned member that holds a table marker was
\* given a table number, and its #tbl: label, when it has one, is mapped to
\* that number, also when the line holds a figure marker too.
C18_TableLinesAreNumbered ==
    args.mode = "garden" =>
        \A idx \in 1..Len(file_offsets) :
            files_to_build[idx] \notin unreadable =>
                \A l \in 1..Len(LinesOf(idx)) :
                    (\E p \in 1..Len(LinesOf(idx)[l]) : LinesOf(idx)[l][p] = TABLE) =>
                        \E n \in 1..Len(numbered) :
                            /\ numbered[n].kind = "tbl"
                            /\ numbered[n].file = GardenStem(files_to_build[idx])
                            /\ numbered[n].line = l
                            /\ numbered[n].label = TableLabelOn(LinesOf(idx)[l])

\* the pre-scan is about to read a member that cannot be read
AtUnreadableMember ==
    /\ args.mode = "garden"
    /\ pc = "prescan"
    /\ files_to_build[scanned + 1] \in unreadable

\* C19: the pre-scan of a member that cannot be read records the entry {0,0},
\* leaves the running counters and the GlobalLabelMap as they are, warns and
\* goes on with the next member; when the pre-scan is over FileOffsets has
\* one entry per member.
C19_UnreadableMemberGetsZeroEntry ==
    /\ [][AtUnreadableMember =>
            /\ file_offsets' = Append(file_offsets,
                                      [figure_offset |-> 0, table_offset |-> 0])
            /\ cumulative_figures' = cumulative_figures
            /\ cumulative_tables' = cumulative_tables
            /\ global_label_map' = global_label_map
            /\ Len(warnings') = Len(warnings) + 1
            /\ scanned' = scanned + 1
            /\ pc' = IF scanned + 1 < Len(files_to_build) THEN "prescan" ELSE "build"]_vars
    /\ [](args.mode = "garden" =>
            /\ Len(file_offsets) = scanned
            /\ pc \in {"build", "index", "done"} => scanned = Len(files_to_build))

\* the pre-scan is over, an unreadable member after a member with a figure
\* has the entry {0,0}
C19_Witness ==
    /\ pc = "build"
    /\ cumulative_figures > 0
    /\ \E idx \in 2..Len(files_to_build) :
          /\ files_to_build[idx] \in unreadable
          /\ file_offsets[idx] = [figure_offset |-> 0, table_offset |-> 0]
          /\ file_offsets[idx - 1].figure_offset = 0

\* C20: GlobalLabelMap and FileOffsets are complete before the first per-file
\* build, no per-file build and no index rewrite changes them, and every
\* per-file build is given the final GlobalLabelMap and its own entry of
\* FileOffsets.
C20_LabelsFixedBeforeBuilds ==
    /\ [][(args.mode = "garden" /\ pc \in {"build", "index"}) =>
            (global_label_map' = global_label_map /\ file_offsets' = file_offsets)]_vars
    /\ [](args.mode = "garden" =>
            /\ handed # <<>> =>
                  (scanned = Len(files_to_build)
                      /\ Len(file_offsets) = Len(files_to_build))
            /\ \A n \in 1..Len(handed) :
                  /\ handed[n].global_labels = global_label_map
                  /\ handed[n].figure_offset = file_offsets[n].figure_offset
                  /\ handed[n].table_offset = file_offsets[n].table_offset)

\* two members were built with a map that holds labels of both
C20_Witness ==
    /\ pc = "done"
    /\ Len(handed) >= 2
    /\ \E k, l \in DOMAIN global_label_map :
          global_label_map[k].file # global_label_map[l].file
    /\ handed[1].global_labels = handed[2].global_labels

----------------------------------------------------------------------------
(* Properties of resolve_transclusions when a file cannot be read or the   *)
(* inclusions form a cycle.                                                *)

\* the target of the directive exists and cannot be read
UnreadableTarget(seg) ==
    IsDirective(seg) /\ SegTarget(seg) \in DOMAIN disk /\ SegTarget(seg) \in unreadable

ReadErrorWarnings(ws) ==
    Cardinality({n \in 1..Len(ws) : ws[n].msg = "Error reading transcluded file"})

UnreadableDirectives(segs) ==
    Cardinality({n \in 1..Len(segs) : UnreadableTarget(segs[n])})

\* C21: a directive whose existing target cannot be read is replaced by the
\* empty text, a warning is emitted for it, and every other piece of the
\* content is resolved as if it stood alone.
C21_UnreadableTargetBecomesEmpty ==
    pc = "done" /\ args.mode = "resolve" =>
        /\ ~result.raised
        /\ result.text = Flatten([n \in 1..Len(args.segments) |->
                             IF UnreadableTarget(args.segments[n])
                             THEN <<>>
                             ELSE Resolved(args.segments[n])])
        /\ ReadErrorWarnings(result.warnings) >= UnreadableDirectives(args.segments)

\* the files a file includes: the existing targets of the directives of its
\* body; a file that cannot be read includes nothing
Includes(path) ==
    IF path \in unreadable THEN {}
    ELSE {TransclusionPath(g) :
             g \in {FindTransclusions(StripFrontmatter(disk[path]), 1)[n] :
                       n \in 1..Len(FindTransclusions(StripFrontmatter(disk[path]), 1))}}
         \cap DOMAIN disk

\* the files reached from the files S in at most n inclusion steps
RECURSIVE ReachedFrom(_, _)
ReachedFrom(S, n) ==
    IF n = 0 THEN S
    ELSE ReachedFrom(S \cup UNION {Includes(f) : f \in S}, n - 1)

\* the existing targets of the directives of the content
Roots(content) ==
    {TransclusionPath(g) :
        g \in {FindTransclusions(content, 1)[n] :
                  n \in 1..Len(FindTransclusions(content, 1))}}
    \cap DOMAIN disk

\* f includes itself, directly or through other files
OnCycle(f) == f \in ReachedFrom(Includes(f), Cardinality(DOMAIN disk))

\* the content reaches a file that is on a cycle of inclusions
Cyclic(content) ==
    \E f \in ReachedFrom(Roots(content), Cardinality(DOMAIN disk)) : OnCycle(f)

\* the read-error warnings for files that can be read: the failure they
\* report is the exhausted stack
StackWarnings(ws) ==
    {n \in 1..Len(ws) : /\ ws[n].msg = "Error reading transcluded file"
                        /\ TransclusionPath(ws[n].what) \notin unreadable}

\* the directives of a text whose target exists and can be read
ReadableDirectives(text) ==
    {p \in ResolvableDirectives(text) :
        TransclusionPath(MatchGroup(text, p)) \notin unreadable}

----------------------------------------------------------------------------
(* Properties of the navigation block.                                     *)

\* the targets of the links of a text that begin with the token `opening`:
\* what stands between the opening and the next ")"
LinkTargets(text, opening) ==
    {SubSeq(text, p + 1, FirstIn(text, {")"}, p) - 1) :
        p \in {q \in 1..Len(text) : text[q] = opening}}

PreviousTargets(text) == LinkTargets(text, "[<- Previous](")
NextTargets(text) == LinkTargets(text, "[Next ->](")

\* the text ends with a block that begins with a rule between blank lines
\* and holds nothing but links after it
EndsWithBlock(text) ==
    \E p \in 1..Len(text) :
        /\ p + 4 <= Len(text)
        /\ SubSeq(text, p, p + 4) = <<NL, NL, DELIM, NL, NL>>
        /\ \A q \in 1..Len(text) :
              text[q] \in {"[<- Previous](", "[Next ->](", DELIM} => q >= p

\* C23: the text built for member n of the MemberFileList has a previous
\* link if and only if n > 1, to the output of member n - 1, and a next link
\* if and only if n is not the last, to the output of member n + 1; the links
\* stand in a block at the end of the text; a sole member gets no block.
C23_NavigationLinksOfNeighbours ==
    args.mode = "garden" =>
        \A n \in 1..Len(handed) :
            /\ handed[n].source = files_to_build[n]
            /\ PreviousTargets(handed[n].text)
                   = IF n > 1 THEN {OutputName(files_to_build[n - 1])} ELSE {}
            /\ NextTargets(handed[n].text)
                   = IF n < Len(files_to_build)
                     THEN {OutputName(files_to_build[n + 1])} ELSE {}
            /\ Len(files_to_build) > 1 => EndsWithBlock(handed[n].text)
            /\ Len(files_to_build) = 1 =>
                   \A q \in 1..Len(handed[n].text) : handed[n].text[q] # DELIM

\* three members were built: the second has both links, the first only the
\* next link, the third only the previous link
C23_Witness ==
    /\ pc = "done"
    /\ files_to_build = <<<<"a", MD>>, <<"b", MD>>, <<"c", MD>>>>
    /\ Len(handed) = 3
    /\ PreviousTargets(handed[2].text) = {<<GARDEN, "a", MD>>}
    /\ NextTargets(handed[2].text) = {<<GARDEN, "c", MD>>}
    /\ PreviousTargets(handed[1].text) = {}
    /\ NextTargets(handed[3].text) = {}

----------------------------------------------------------------------------
(* Properties of the messages of the collection build.                     *)

\* the file a directive with the text `group` names: what stands before the
\* alias separator, without blanks, with ".md" when it has no extension
DirectiveTarget(group) ==
    LET bars == {p \in 1..Len(group) : group[p] = BAR}
        stop == IF bars = {} THEN Len(group) + 1
                ELSE CHOOSE p \in bars : \A q \in bars : p <= q
        name == SelectSeq(SubSeq(group, 1, stop - 1), LAMBDA t : t # SPACE)
    IN IF name # <<>> /\ name[Len(name)] \in {MD, ".txt"} THEN name ELSE name \o <<MD>>

\* the directives of the index whose target file does not exist
LeftOut ==
    {DirectiveTarget(FindTransclusions(master_content, 1)[n]) :
        n \in 1..Len(FindTransclusions(master_content, 1))} \ DOMAIN disk

\* a message was printed about the file: it names the file or its stem
WarnedAbout(path) ==
    \E n \in 1..Len(warnings) :
        warnings[n].what \in {path, SubSeq(path, 1, Len(path) - 1)}

\* C24: every recoverable failure of the collection build has its warning:
\* a directive of the index whose target does not exist and is left out of
\* the MemberFileList, a member that the pre-scan cannot read, and an
\* inclusion of a member whose target is missing or cannot be read.
C24_EveryRecoverableFailureWarns ==
    (args.mode = "garden" /\ pc # "start") =>
        /\ \A path \in LeftOut : WarnedAbout(path)
        /\ \A n \in 1..scanned :
              files_to_build[n] \in unreadable => WarnedAbout(files_to_build[n])
        /\ \A n \in 1..Len(handed) :
              \A p \in 1..Len(handed[n].text) :
                  DirectiveAt(handed[n].text, p) =>
                      WarnedAbout(DirectiveTarget(MatchGroup(handed[n].text, p)))

\* the texts of the directives of the index
IndexDirectives ==
    {FindTransclusions(master_content, 1)[n] :
        n \in 1..Len(FindTransclusions(master_content, 1))}

\* C25: the member list and resolve_transclusions look up the same file for
\* the same directive text: what stands before the alias separator, with the
\* default extension ".md" when that name has none.
C25_SameFileInBothPlaces ==
    (args.mode = "garden" /\ pc # "start") =>
        \A g \in IndexDirectives :
            /\ MemberPath(g) = DirectiveTarget(g)
            /\ TransclusionPath(g) = DirectiveTarget(g)

----------------------------------------------------------------------------
(* Properties of the replace chain.                                        *)

\* the characters the chain puts back
Escapable == {"[", "]", "_", "*"}

\* the text with every escaped bracket, underscore and asterisk replaced by
\* the plain character: read from the left, a backslash escapes the
\* character after it, and an escaped backslash or other character stays
RECURSIVE Unescaped(_)
Unescaped(text) ==
    IF text = <<>> THEN <<>>
    ELSE IF Head(text) = BS /\ Len(text) >= 2
         THEN (IF text[2] \in Escapable THEN <<text[2]>> ELSE <<BS, text[2]>>)
                  \o Unescaped(SubSeq(text, 3, Len(text)))
         ELSE <<Head(text)>> \o Unescaped(Tail(text))

\* C26: the result of the replace chain is the converted text with every
\* escaped bracket, underscore and asterisk replaced by the plain character
\* and every other character unchanged.
C26_OnlyEscapesAreRemoved ==
    pc = "done" /\ args.mode = "normalize" =>
        result.text = Unescaped(args.built_content)

----------------------------------------------------------------------------
(* Properties of a collection build that builds no member, and of the      *)
(* rewritten index.                                                        *)

\* C27: a collection build that returns before it builds a member (no index
\* file, or no directive that names an existing file) leaves the output
\* directory as it found it.
C27_EarlyReturnKeepsOutput ==
    (args.mode = "garden" /\ pc = "returned") => garden_dir = StaleDir

\* the lines of the rewritten index
IndexLines == SplitLines(garden_dir[IndexFile])

\* C28: the rewritten index has the lines of the index file, and every line
\* that is no inclusion directive, an ordinary link included, is the same in
\* both.
C28_OnlyDirectivesAreRewritten ==
    (args.mode = "garden" /\ pc = "done") =>
        /\ Len(IndexLines) = Len(args.entries)
        /\ \A n \in 1..Len(args.entries) :
              ~EntryIsDirective(args.entries[n]) =>
                  IndexLines[n] \o <<NL>> = args.entries[n]

\* the file a link entry points to: what stands between "[[" and "|", with
\* the extension of the rendered files
LinkedFile(line) ==
    SubSeq(line, FirstIn(line, {OPEN}, 1) + 1, FirstIn(line, {BAR}, 1) - 1) \o <<MD>>

\* C29: after a collection build every link entry that the rewritten index
\* got from an inclusion directive points to a file of the output directory.
C29_LinkEntriesPointToOutputs ==
    (args.mode = "garden" /\ pc = "done") =>
        \A n \in 1..Len(args.entries) :
            (EntryIsDirective(args.entries[n]) /\ Contains(IndexLines[n], OPEN)) =>
                LinkedFile(IndexLines[n]) \in DOMAIN garden_dir

----------------------------------------------------------------------------
(* Properties of the keys extract_si_citations drops.                      *)

\* a figure cross-reference, a table cross-reference or the e-mail token
IsCrossReference(w) ==
    \/ BeginsWith(w, <<"@", "F", "i", "g", ":">>)
    \/ BeginsWith(w, <<"@", "T", "b", "l", ":">>)
    \/ w = Chars_email

\* the citation keys among the words of the text that are no cross-reference
LiteratureKeys(ws) ==
    {ws[n] : n \in {m \in 1..Len(ws) : Head(ws[m]) = "@" /\ ~IsCrossReference(ws[m])}}

\* C30: the result of extract_si_citations holds every key of the text that
\* is not a figure cross-reference, a table cross-reference or the e-mail
\* token, and no other: a key that only begins with the letters Fig, Tbl or
\* email is kept.
C30_OnlyCrossReferencesAreDropped ==
    pc = "done" /\ args.mode = "cite" =>
        {SplitKeys(result.text)[n] : n \in 1..Len(SplitKeys(result.text))}
            = LiteratureKeys(args.words)

====
